---- MODULE Spec2Model ----
(***************************************************************************)
(* Model of download.py: a command-line run that parses a file id out of  *)
(* a Google Drive URL, obtains credentials, fetches the file's metadata,  *)
(* downloads or exports the file in chunks and saves it under output/.    *)
(*                                                                         *)
(* Strings are sequences of atoms.  An atom is one character ("/", "d",   *)
(* ".") or an indivisible group of characters ("google-apps", ".docx");   *)
(* string equality, prefix tests, splitting and concatenation are the     *)
(* corresponding operations on sequences.                                 *)
(***************************************************************************)
EXTENDS Integers, Sequences, FiniteSets, TLC

VARIABLES
    url,         \* args.url
    pc,          \* position of the run in the script
    exception,   \* the uncaught exception that ended the run, or None
    file_id,     \* main's file_id
    token0,      \* content of token.json when the run starts (None: no file)
    tokenFile,   \* content of token.json
    creds,       \* init's creds
    service,     \* credentials the service handle was built with
    apiCreds,    \* credentials the API requests of the run were sent with
    meta,        \* what get_meta returned
    name,        \* main's name
    mime_type,   \* main's mime_type
    request,     \* the media request of download_file / export_file
    payload,     \* the bytes the server holds for the requested media
    file,        \* the BytesIO buffer of download_file / export_file
    file_media,  \* main's file_media
    disk,        \* files created by the run: path -> bytes
    log          \* observable events of the run, in order

vars == <<url, pc, exception, file_id, token0, tokenFile, creds, service,
          apiCreds, meta, name, mime_type, request, payload, file,
          file_media, disk, log>>

\* ------------------------------------------------------------------ bounds
MaxUrlLen == 6
MaxNameLen == 2
MaxBytes == 3

\* A variable that can hold Python's None holds None or Some(v).
None == {}
Some(v) == {v}
The(o) == CHOOSE v \in o : TRUE

\* ----------------------------------------------------------- string helpers
RECURSIVE StringsUpTo(_, _)
StringsUpTo(alphabet, n) ==
    IF n = 0 THEN {<<>>}
    ELSE LET shorter == StringsUpTo(alphabet, n - 1)
         IN  shorter \cup {Append(s, c) : s \in shorter, c \in alphabet}

startswith(s, prefix) ==
    /\ Len(s) >= Len(prefix)
    /\ SubSeq(s, 1, Len(prefix)) = prefix

\* ------------------------------------------------------------ parse_URL
\* Characters of URLs: "a" and "d" stand for the class [a-zA-Z0-9_-],
\* "/" is the path delimiter, "." and "?" are outside the class.
UrlChars == {"/", "d", "a", "."}
IdChars == {"d", "a"}

\* Length of the longest run of class characters of s starting at index i.
RECURSIVE RunLen(_, _)
RunLen(s, i) ==
    IF i <= Len(s) /\ s[i] \in IdChars THEN 1 + RunLen(s, i + 1) ELSE 0

\* Positions where the pattern /d/([a-zA-Z0-9_-]+) matches.
MatchAt(s, i) ==
    /\ i + 3 <= Len(s)
    /\ s[i] = "/" /\ s[i + 1] = "d" /\ s[i + 2] = "/"
    /\ RunLen(s, i + 3) >= 1

\* The parser with the pattern /d/([^/]+): the group runs to the next
\* delimiter instead of to the end of the run of class characters.
RECURSIVE RunToSlash(_, _)
RunToSlash(s, i) ==
    IF i <= Len(s) /\ s[i] /= "/" THEN 1 + RunToSlash(s, i + 1) ELSE 0

parse_URL_ToSlash(s) ==
    LET hits == {i \in 1..Len(s) :
                    /\ i + 3 <= Len(s)
                    /\ s[i] = "/" /\ s[i + 1] = "d" /\ s[i + 2] = "/"
                    /\ RunToSlash(s, i + 3) >= 1}
    IN  IF hits = {} THEN None
        ELSE LET i == CHOOSE k \in hits : \A j \in hits : k <= j
             IN  Some(SubSeq(s, i + 3, i + 2 + RunToSlash(s, i + 3)))

\* re.search: leftmost match, greedy group.  None stands for the
\* ValueError the code raises when nothing matches.
parse_URL(s) ==
    LET hits == {i \in 1..Len(s) : MatchAt(s, i)}
    IN  IF hits = {} THEN None
        ELSE LET i == CHOOSE k \in hits : \A j \in hits : k <= j
             IN  Some(SubSeq(s, i + 3, i + 2 + RunLen(s, i + 3)))

AllUrls == StringsUpTo(UrlChars, MaxUrlLen)

\* URLs given on the command line in the full runs.
RunUrls == { <<"/", "d", "/", "a", "d", "/">>,
             <<"/", "d", "/", "a", ".", "a">>,
             <<"a", "/", "d", "/", "a">>,
             <<"/", "d", "/", ".", "/">>,
             <<"/", "a", "/", "d">>,
             <<>> }

\* ------------------------------------------------------------ credentials
\* token: an access token is present; expired: its expiry has passed;
\* refresh_token: a refresh token is present.
Credentials == [token : BOOLEAN, expired : BOOLEAN, refresh_token : BOOLEAN]

\* google.oauth2.credentials.Credentials.valid
valid(c) == c.token /\ ~c.expired

\* --------------------------------------------------------- metadata inputs
NameChars == {"a", "/"}
Names == StringsUpTo(NameChars, MaxNameLen) \ {<<>>}

GOOGLE_APPS == <<"application/vnd", ".", "google-apps">>

\* Content types the metadata request can answer with: the three exportable
\* types, other online-document types, types that share the prefix or the
\* last component only, and ordinary binary types.
MimeTypes == { GOOGLE_APPS \o <<".", "document">>,
               GOOGLE_APPS \o <<".", "spreadsheet">>,
               GOOGLE_APPS \o <<".", "presentation">>,
               GOOGLE_APPS \o <<".", "folder">>,
               GOOGLE_APPS,
               GOOGLE_APPS \o <<".", "x", ".", "document">>,
               GOOGLE_APPS \o <<"x", ".", "spreadsheet">>,
               <<"application/vnd", ".", "document">>,
               <<"application/pdf">> }

Bytes == {0, 1}
Payloads == StringsUpTo(Bytes, MaxBytes)

\* --------------------------------------------------------------- export_file
MIME_TYPE_WORD_PREFIX == <<"application/vnd", ".", "openxmlformats-officedocument">>

MIME_TYPE_INDEX ==
    [t \in {"document", "spreadsheet", "presentation"} |->
        CASE t = "document"     -> <<"wordprocessingml", ".", "document">>
          [] t = "spreadsheet"  -> <<"spreadsheetml", ".", "sheet">>
          [] t = "presentation" -> <<"presentationml", ".", "presentation">>]

\* mime_type.split(".")[-1]
RECURSIVE LastComponent(_)
LastComponent(s) ==
    IF s = <<>> THEN <<>>
    ELSE IF s[Len(s)] = "." THEN <<>>
    ELSE Append(LastComponent(SubSeq(s, 1, Len(s) - 1)), s[Len(s)])

\* The key MIME_TYPE_INDEX is looked up with; a component of several atoms
\* is no key of the map.
document_type(m) ==
    LET c == LastComponent(m) IN IF Len(c) = 1 THEN c[1] ELSE "other"

request_mime_type(m) ==
    MIME_TYPE_WORD_PREFIX \o <<".">> \o MIME_TYPE_INDEX[document_type(m)]

\* --------------------------------------------------------- get_file_extension
get_file_extension(m) ==
    IF m = GOOGLE_APPS \o <<".", "document">> THEN <<".docx">>
    ELSE IF m = GOOGLE_APPS \o <<".", "spreadsheet">> THEN <<".xlsx">>
    ELSE IF m = GOOGLE_APPS \o <<".", "presentation">> THEN <<".pptx">>
    ELSE <<>>

\* ------------------------------------------------------------------ save_file
OUTPUT_DIR == <<"output", "/">>

\* os.path.join(a, b) of posixpath: an absolute b replaces a.
os_path_join(a, b) ==
    IF b /= <<>> /\ b[1] = "/" THEN b
    ELSE IF a = <<>> \/ a[Len(a)] = "/" THEN a \o b
    ELSE a \o <<"/">> \o b

\* A path that ends with the delimiter names a directory: open(.., "wb")
\* raises for it.
IsDirectoryPath(p) == p = <<>> \/ p[Len(p)] = "/"

\* ------------------------------------------------------------------ the run
Raise(e) ==
    /\ exception' = e
    /\ pc' = "crashed"

Emit(e) == log' = Append(log, e)

InitWith(urls) ==
    /\ url \in urls
    /\ pc = "parse"
    /\ exception = "none"
    /\ file_id = None
    /\ token0 \in {None} \cup {Some(c) : c \in Credentials}
    /\ tokenFile = token0
    /\ creds = None
    /\ service = None
    /\ apiCreds = {}
    /\ meta = None
    /\ name = None
    /\ mime_type = None
    /\ request = None
    /\ payload = None
    /\ file = None
    /\ file_media = None
    /\ disk = <<>>
    /\ log = <<>>

Init == InitWith(RunUrls)

InitParse == InitWith(AllUrls)

\* The parse step with a parser that returns an empty id instead of raising.
MainParse_NoRaise ==
    /\ pc = "parse"
    /\ file_id' = IF parse_URL(url) = None THEN Some(<<>>) ELSE parse_URL(url)
    /\ pc' = "init"
    /\ UNCHANGED <<url, exception, token0, tokenFile, creds, service, apiCreds, meta,
                   name, mime_type, request, payload, file, file_media, disk, log>>

\* file_id = parse_URL(args.url)
MainParse ==
    /\ pc = "parse"
    /\ IF parse_URL(url) = None
       THEN /\ Raise("ValueError")
            /\ UNCHANGED file_id
       ELSE /\ file_id' = parse_URL(url)
            /\ pc' = "init"
            /\ UNCHANGED exception
    /\ UNCHANGED <<url, token0, tokenFile, creds, service, apiCreds, meta, name,
                   mime_type, request, payload, file, file_media, disk, log>>

\* init(): read token.json and decide whether authorization is needed.
InitLoad ==
    /\ pc = "init"
    /\ creds' = tokenFile
    /\ pc' = IF tokenFile = None \/ ~valid(The(tokenFile))
             THEN "authorize" ELSE "build"
    /\ UNCHANGED <<url, exception, file_id, token0, tokenFile, service, apiCreds,
                   meta, name, mime_type, request, payload, file, file_media, disk, log>>

\* The refresh test without its refresh_token conjunct.
NeedsRefresh_IgnoresToken(c) == c /= None /\ The(c).expired

\* creds and creds.expired and creds.refresh_token
NeedsRefresh(c) == c /= None /\ The(c).expired /\ The(c).refresh_token

\* creds.refresh(Request()): the token endpoint answers or the call raises.
InitRefresh ==
    /\ pc = "authorize"
    /\ NeedsRefresh(creds)
    /\ \E ok \in BOOLEAN :
         IF ok
         THEN /\ creds' = Some([The(creds) EXCEPT !.token = TRUE, !.expired = FALSE])
              /\ Emit("refresh")
              /\ pc' = "save_token"
              /\ UNCHANGED exception
         ELSE /\ Raise("RefreshError")
              /\ Emit("refresh_failed")
              /\ UNCHANGED creds
    /\ UNCHANGED <<url, file_id, token0, tokenFile, service, apiCreds, meta, name,
                   mime_type, request, payload, file, file_media, disk>>

\* flow.run_local_server(port=0): the user authorizes or the flow raises.
InitInteractive ==
    /\ pc = "authorize"
    /\ ~NeedsRefresh(creds)
    /\ \E ok \in BOOLEAN :
         IF ok
         THEN /\ creds' = Some([token |-> TRUE, expired |-> FALSE,
                                refresh_token |-> TRUE])
              /\ Emit("interactive")
              /\ pc' = "save_token"
              /\ UNCHANGED exception
         ELSE /\ Raise("FlowError")
              /\ Emit("interactive_failed")
              /\ UNCHANGED creds
    /\ UNCHANGED <<url, file_id, token0, tokenFile, service, apiCreds, meta, name,
                   mime_type, request, payload, file, file_media, disk>>

\* token.write(creds.to_json())
InitSaveToken ==
    /\ pc = "save_token"
    /\ tokenFile' = creds
    /\ Emit("write_token")
    /\ pc' = "build"
    /\ UNCHANGED <<url, exception, file_id, token0, creds, service, apiCreds, meta,
                   name, mime_type, request, payload, file, file_media, disk>>

\* service = build("drive", "v3", credentials=creds)
InitBuild ==
    /\ pc = "build"
    /\ service' = creds
    /\ Emit("build")
    /\ pc' = "get_meta"
    /\ UNCHANGED <<url, exception, file_id, token0, tokenFile, creds, apiCreds, meta,
                   name, mime_type, request, payload, file, file_media, disk>>

\* name, mime_type = get_meta(file_id, service), the request answered.
GetMetaOk ==
    /\ pc = "get_meta"
    /\ \E n \in Names, m \in MimeTypes :
         /\ meta' = Some([name |-> n, mimeType |-> m])
         /\ name' = Some(n)
         /\ mime_type' = Some(m)
    /\ apiCreds' = apiCreds \cup service
    /\ Emit("files.get")
    /\ pc' = "dispatch"
    /\ UNCHANGED <<url, exception, file_id, token0, tokenFile, creds, service,
                   request, payload, file, file_media, disk>>

\* The failing metadata request with get_meta returning an empty name and
\* type instead of None, so that main goes on.
GetMetaHttpError_Proceed ==
    /\ pc = "get_meta"
    /\ apiCreds' = apiCreds \cup service
    /\ log' = log \o <<"files.get_failed", "print_meta_error">>
    /\ name' = Some(<<>>)
    /\ mime_type' = Some(<<>>)
    /\ pc' = "dispatch"
    /\ UNCHANGED <<url, exception, file_id, token0, tokenFile, creds, service, meta,
                   request, payload, file, file_media, disk>>

\* get_meta catches HttpError, prints and returns None; unpacking None into
\* name, mime_type raises TypeError in main.
GetMetaHttpError ==
    /\ pc = "get_meta"
    /\ apiCreds' = apiCreds \cup service
    /\ log' = log \o <<"files.get_failed", "print_meta_error">>
    /\ Raise("TypeError")
    /\ UNCHANGED <<url, file_id, token0, tokenFile, creds, service, meta, name,
                   mime_type, request, payload, file, file_media, disk>>

\* if mime_type.startswith("application/vnd.google-apps"): ... else: ...
Dispatch ==
    /\ pc = "dispatch"
    /\ pc' = IF startswith(The(mime_type), GOOGLE_APPS)
             THEN "export_file" ELSE "download_file"
    /\ UNCHANGED <<url, exception, file_id, token0, tokenFile, creds, service,
                   apiCreds, meta, name, mime_type, request, payload, file,
                   file_media, disk, log>>

\* download_file: request = service.files().get_media(fileId=file_id);
\* file = io.BytesIO(); downloader = MediaIoBaseDownload(file, request)
DownloadStart ==
    /\ pc = "download_file"
    /\ request' = Some([op |-> "get_media", fileId |-> The(parse_URL(url)),
                        mimeType |-> <<>>])
    /\ payload' \in {Some(p) : p \in Payloads}
    /\ file' = Some(<<>>)
    /\ Emit("get_media")
    /\ pc' = "download_chunk"
    /\ UNCHANGED <<url, exception, file_id, token0, tokenFile, creds, service,
                   apiCreds, meta, name, mime_type, file_media, disk>>

\* export_file with the lookup inside the try block and KeyError caught like
\* HttpError: the failure becomes a printed message and a None result.
ExportStart_Caught ==
    /\ pc = "export_file"
    /\ IF document_type(The(mime_type)) \notin DOMAIN MIME_TYPE_INDEX
       THEN /\ file' = None
            /\ Emit("print_download_error")
            /\ pc' = "export_return"
            /\ UNCHANGED <<request, payload>>
       ELSE /\ request' = Some([op |-> "export_media", fileId |-> The(file_id),
                                mimeType |-> request_mime_type(The(mime_type))])
            /\ payload' \in {Some(p) : p \in Payloads}
            /\ file' = Some(<<>>)
            /\ Emit("export_media")
            /\ pc' = "export_chunk"
    /\ UNCHANGED <<url, exception, file_id, token0, tokenFile, creds, service,
                   apiCreds, meta, name, mime_type, file_media, disk>>

\* export_file: the lookup MIME_TYPE_INDEX[document_type] raises KeyError for
\* a key the map does not hold; otherwise the export request is prepared.
ExportStart ==
    /\ pc = "export_file"
    /\ IF document_type(The(mime_type)) \notin DOMAIN MIME_TYPE_INDEX
       THEN /\ Raise("KeyError")
            /\ UNCHANGED <<request, payload, file, log>>
       ELSE /\ request' = Some([op |-> "export_media", fileId |-> The(file_id),
                                mimeType |-> request_mime_type(The(mime_type))])
            /\ payload' \in {Some(p) : p \in Payloads}
            /\ file' = Some(<<>>)
            /\ Emit("export_media")
            /\ pc' = "export_chunk"
            /\ UNCHANGED exception
    /\ UNCHANGED <<url, file_id, token0, tokenFile, creds, service, apiCreds, meta,
                   name, mime_type, file_media, disk>>

\* The chunk loop without "file = None" in the except branch: the bytes
\* received before the failure are returned.
next_chunk_KeepPartial(loop, after) ==
    /\ apiCreds' = apiCreds \cup service
    /\ LET got == Len(The(file))
           total == Len(The(payload))
       IN  \/ \E k \in (IF got = total THEN {0} ELSE 1..(total - got)) :
                /\ file' = Some(The(file) \o SubSeq(The(payload), got + 1, got + k))
                /\ Emit("chunk")
                /\ pc' = IF got + k = total THEN after ELSE loop
           \/ /\ file' = file
              /\ log' = log \o <<"chunk_failed", "print_download_error">>
              /\ pc' = after
    /\ UNCHANGED <<url, exception, file_id, token0, tokenFile, creds, service, meta,
                   name, mime_type, request, payload, file_media, disk>>

\* One pass of: while done is False: _, done = downloader.next_chunk()
\* inside try/except HttpError.  The server answers with the next bytes of the
\* payload (a chunk of the remaining bytes, or nothing when nothing is left)
\* or the request fails; the failure is printed and file becomes None.
next_chunk(loop, after) ==
    /\ apiCreds' = apiCreds \cup service
    /\ LET got == Len(The(file))
           total == Len(The(payload))
       IN  \/ \E k \in (IF got = total THEN {0} ELSE 1..(total - got)) :
                /\ file' = Some(The(file) \o SubSeq(The(payload), got + 1, got + k))
                /\ Emit("chunk")
                /\ pc' = IF got + k = total THEN after ELSE loop
           \/ /\ file' = None
              /\ log' = log \o <<"chunk_failed", "print_download_error">>
              /\ pc' = after
    /\ UNCHANGED <<url, exception, file_id, token0, tokenFile, creds, service, meta,
                   name, mime_type, request, payload, file_media, disk>>

DownloadChunk ==
    /\ pc = "download_chunk"
    /\ next_chunk("download_chunk", "download_return")

ExportChunk ==
    /\ pc = "export_chunk"
    /\ next_chunk("export_chunk", "export_return")

\* file_media = download_file(parse_URL(args.url), service)
DownloadReturn ==
    /\ pc = "download_return"
    /\ file_media' = file
    /\ pc' = "report"
    /\ UNCHANGED <<url, exception, file_id, token0, tokenFile, creds, service,
                   apiCreds, meta, name, mime_type, request, payload, file, disk,
                   log>>

\* file_media = export_file(file_id, mime_type, service)
\* extension = get_file_extension(mime_type); name = name + extension
ExportReturn ==
    /\ pc = "export_return"
    /\ file_media' = file
    /\ name' = Some(The(name) \o get_file_extension(The(mime_type)))
    /\ pc' = "report"
    /\ UNCHANGED <<url, exception, file_id, token0, tokenFile, creds, service,
                   apiCreds, meta, mime_type, request, payload, file, disk, log>>

\* if file_media is not None: print(f"Downloaded {name}!") ... else: print(..)
MainReport ==
    /\ pc = "report"
    /\ IF file_media /= None
       THEN /\ Emit("print_downloaded")
            /\ pc' = "save_file"
       ELSE /\ Emit("print_failed")
            /\ pc' = "done"
    /\ UNCHANGED <<url, exception, file_id, token0, tokenFile, creds, service,
                   apiCreds, meta, name, mime_type, request, payload, file,
                   file_media, disk>>

SavePath == os_path_join(OUTPUT_DIR, The(name))

\* save_file: open(os.path.join(OUTPUT_DIR, filename), "wb") creates or
\* truncates the file, or raises.
SaveOpen ==
    /\ pc = "save_file"
    /\ \/ /\ ~IsDirectoryPath(SavePath)
          /\ disk' = (SavePath :> <<>>) @@ disk
          /\ Emit("open")
          /\ pc' = "write"
          /\ UNCHANGED exception
       \/ /\ Raise("OSError")
          /\ Emit("open_failed")
          /\ UNCHANGED disk
    /\ UNCHANGED <<url, file_id, token0, tokenFile, creds, service, apiCreds, meta,
                   name, mime_type, request, payload, file, file_media>>

\* save_file: bytes.seek(0); f.write(bytes.getbuffer()).  The write completes
\* or raises after part of the buffer reached the file.
SaveWrite ==
    /\ pc = "write"
    /\ LET buf == The(file_media)
       IN  \E k \in 0..Len(buf) :
             /\ disk' = [disk EXCEPT ![SavePath] = SubSeq(buf, 1, k)]
             /\ IF k = Len(buf)
                THEN /\ Emit("write")
                     /\ pc' = "done"
                     /\ UNCHANGED exception
                ELSE /\ Emit("write_failed")
                     /\ Raise("OSError")
    /\ UNCHANGED <<url, file_id, token0, tokenFile, creds, service, apiCreds, meta,
                   name, mime_type, request, payload, file, file_media>>

Next ==
    \/ MainParse
    \/ InitLoad
    \/ InitRefresh
    \/ InitInteractive
    \/ InitSaveToken
    \/ InitBuild
    \/ GetMetaOk
    \/ GetMetaHttpError
    \/ Dispatch
    \/ DownloadStart
    \/ DownloadChunk
    \/ DownloadReturn
    \/ ExportStart
    \/ ExportChunk
    \/ ExportReturn
    \/ MainReport
    \/ SaveOpen
    \/ SaveWrite

Spec == Init /\ [][Next]_vars

\* Runs of the URL parser alone, over every URL of the bounded alphabet.
NextParse == MainParse

SpecParse == InitParse /\ [][NextParse]_vars

\* ------------------------------------------------------------- properties
InLog(e) == \E i \in 1..Len(log) : log[i] = e

Parsed == pc /= "parse"

SLASH_D_SLASH == <<"/", "d", "/">>

\* s holds "/d/" at i, followed by a non-empty token that runs up to j, the
\* next delimiter or the end of the string.
TokenBefore(s, i, j) ==
    /\ i + 2 <= Len(s) /\ SubSeq(s, i, i + 2) = SLASH_D_SLASH
    /\ i + 3 < j
    /\ j = Len(s) + 1 \/ (j <= Len(s) /\ s[j] = "/")
    /\ \A k \in (i + 3)..(j - 1) : s[k] /= "/"

HasDelimitedToken(s) == \E i, j \in 1..(Len(s) + 1) : TokenBefore(s, i, j)

\* s holds "/d/" at i, followed by at least one character of the class.
SlashDId(s, i) ==
    /\ i + 3 <= Len(s) /\ SubSeq(s, i, i + 2) = SLASH_D_SLASH
    /\ s[i + 3] \in IdChars

\* r is the maximal run of class characters of s that starts at i + 3.
IsIdRunAt(s, i, r) ==
    /\ Len(r) >= 1 /\ i + 2 + Len(r) <= Len(s)
    /\ SubSeq(s, i + 3, i + 2 + Len(r)) = r
    /\ \A k \in 1..Len(r) : r[k] \in IdChars
    /\ i + 3 + Len(r) <= Len(s) => s[i + 3 + Len(r)] \notin IdChars

\* C1 as stated: for a URL that holds /d/<token>, parse_URL returns the whole
\* substring between /d/ and the next delimiter (or the end of the URL); for
\* every other string it raises ValueError.
C1_TokenToNextDelimiter ==
    Parsed =>
        IF HasDelimitedToken(url)
        THEN /\ file_id /= None
             /\ \E i, j \in 1..(Len(url) + 1) :
                    /\ TokenBefore(url, i, j)
                    /\ \A i2, j2 \in 1..(Len(url) + 1) :
                           TokenBefore(url, i2, j2) => i <= i2
                    /\ The(file_id) = SubSeq(url, i + 3, j - 1)
        ELSE file_id = None /\ exception = "ValueError"

\* C1 amended: when some /d/ of the URL is followed by a character of
\* [a-zA-Z0-9_-], parse_URL returns the maximal run of such characters after
\* the first such /d/ (the run ends at the first character outside the class
\* or at the end of the string, not necessarily at a delimiter); for every
\* other string it raises ValueError and returns nothing.
C1_MaximalIdRun ==
    Parsed =>
        IF \E i \in 1..Len(url) : SlashDId(url, i)
        THEN /\ exception = "none"
             /\ file_id /= None
             /\ \E i \in 1..Len(url) :
                    /\ SlashDId(url, i)
                    /\ \A i2 \in 1..Len(url) : SlashDId(url, i2) => i <= i2
                    /\ IsIdRunAt(url, i, The(file_id))
        ELSE file_id = None /\ exception = "ValueError" /\ pc = "crashed"

\* A parsed URL whose id is cut short of the next delimiter by a character
\* outside the class.
C1_Witness ==
    /\ Parsed /\ file_id /= None
    /\ \E i \in 1..Len(url) :
          /\ SlashDId(url, i)
          /\ i + 4 + Len(The(file_id)) <= Len(url)
          /\ url[i + 3 + Len(The(file_id))] = "."
          /\ url[i + 4 + Len(The(file_id))] = "/"

MediaEvents == {"get_media", "export_media", "chunk", "chunk_failed"}
WriteEvents == {"open", "open_failed", "write", "write_failed"}

\* C2: once the metadata request has failed, the error has been printed,
\* get_meta has yielded nothing, and no media request and no write under
\* output/ is attempted in the rest of the run.
C2_MetaFailureIsTerminal ==
    InLog("files.get_failed") =>
        /\ InLog("print_meta_error")
        /\ meta = None /\ name = None /\ mime_type = None
        /\ request = None
        /\ \A i \in 1..Len(log) : log[i] \notin MediaEvents \cup WriteEvents
        /\ disk = <<>>

C2_Witness == InLog("files.get_failed") /\ pc = "crashed" /\ service /= None

\* C3: once a chunk of download_file or export_file has failed, the operation
\* yields no buffer, no further chunk is requested, save_file is not called
\* and the run leaves no file, complete or partial.
C3_ChunkFailureLeavesNothing ==
    \A i \in 1..Len(log) :
        log[i] = "chunk_failed" =>
            /\ file = None /\ file_media = None
            /\ \A j \in (i + 1)..Len(log) :
                   log[j] \in {"print_download_error", "print_failed"}
            /\ disk = <<>>

\* A run that ended after a chunk failed behind a successful chunk.
C3_Witness ==
    /\ pc = "done"
    /\ \E i, j \in 1..Len(log) : i < j /\ log[i] = "chunk" /\ log[j] = "chunk_failed"

Saved == pc = "done" /\ InLog("write")

\* C4 as stated: after a raw download whose chunks all succeeded, the file
\* under output/ named exactly the display name holds exactly the payload.
C4_RawFileUnderOutput ==
    (Saved /\ InLog("get_media")) =>
        LET p == OUTPUT_DIR \o The(meta).name
        IN  p \in DOMAIN disk /\ disk[p] = The(payload)

\* The extension the claim resolves a content type to.
ResolvedExtension(m) ==
    CASE m = <<"application/vnd", ".", "google-apps", ".", "document">> -> <<".docx">>
      [] m = <<"application/vnd", ".", "google-apps", ".", "spreadsheet">> -> <<".xlsx">>
      [] m = <<"application/vnd", ".", "google-apps", ".", "presentation">> -> <<".pptx">>
      [] OTHER -> <<>>

\* C5 as stated: after a completed export, the file under output/ is named
\* the display name followed by the resolved extension.
C5_ExportFileNamed ==
    (Saved /\ InLog("export_media")) =>
        (OUTPUT_DIR \o The(meta).name \o ResolvedExtension(The(meta).mimeType))
            \in DOMAIN disk

NoCredential == token0 = None
ExpiredCredential == token0 /= None /\ The(token0).expired
HasRefresh == token0 /= None /\ The(token0).refresh_token

Before(a, b) ==
    \E i, j \in 1..Len(log) : i < j /\ log[i] = a /\ log[j] = b

\* C6: a run that starts without token.json, or with an expired credential
\* without a refresh token, authorizes interactively and never refreshes; one
\* that starts with an expired credential and a refresh token refreshes and
\* never authorizes interactively.  In all three, once the service handle is
\* built the credential is valid, token.json was written with it before the
\* build, and every API request of the run is sent with it.
C6_CredentialMachine ==
    (NoCredential \/ ExpiredCredential) =>
        /\ (ExpiredCredential /\ HasRefresh) =>
               ~InLog("interactive") /\ ~InLog("interactive_failed")
        /\ ~(ExpiredCredential /\ HasRefresh) =>
               ~InLog("refresh") /\ ~InLog("refresh_failed")
        /\ service /= None =>
               /\ valid(The(service))
               /\ tokenFile = service
               /\ Before("write_token", "build")
               /\ IF ExpiredCredential /\ HasRefresh
                  THEN Before("refresh", "write_token")
                  ELSE Before("interactive", "write_token")
               /\ apiCreds \subseteq service

\* An expired credential with a refresh token, refreshed and used for requests.
C6_Witness ==
    /\ ExpiredCredential /\ HasRefresh
    /\ service /= None /\ apiCreds /= {}
    /\ InLog("chunk")

KnownTypes == {<<"document">>, <<"spreadsheet">>, <<"presentation">>}

\* C7: for a content type with the online-document prefix whose last
\* component is none of document, spreadsheet, presentation, the run ends in
\* export_file with an uncaught KeyError: no export request, no file, no
\* None result and no printed download failure.
C7_UnsupportedTypeRaises ==
    (/\ mime_type /= None
     /\ pc \notin {"dispatch", "export_file"}
     /\ startswith(The(mime_type), GOOGLE_APPS)
     /\ LastComponent(The(mime_type)) \notin KnownTypes) =>
        /\ pc = "crashed" /\ exception = "KeyError"
        /\ request = None /\ file = None /\ file_media = None
        /\ \A i \in 1..Len(log) :
               log[i] \notin MediaEvents \cup WriteEvents
                             \cup {"print_download_error", "print_failed"}
        /\ disk = <<>>

C7_Witness ==
    /\ exception = "KeyError"
    /\ The(mime_type) = GOOGLE_APPS \o <<".", "folder">>

\* C8: a run whose URL does not match the pattern ends at once with
\* ValueError: no refresh, no interactive authorization, no write of
\* token.json, no request and no file write.
C8_InvalidUrlAbortsFirst ==
    (Parsed /\ ~\E i \in 1..Len(url) : SlashDId(url, i)) =>
        /\ pc = "crashed" /\ exception = "ValueError"
        /\ log = <<>>
        /\ tokenFile = token0
        /\ creds = None /\ service = None /\ apiCreds = {}
        /\ request = None
        /\ disk = <<>>

C8_Witness ==
    /\ exception = "ValueError"
    /\ url = <<"/", "d", "/", ".", "/">>
    /\ token0 /= None /\ The(token0).expired /\ The(token0).refresh_token

\* The extension of the office format an export request asks for.
OfficeExtension(fmt) ==
    CASE fmt = MIME_TYPE_WORD_PREFIX \o <<".", "wordprocessingml", ".", "document">>
             -> <<".docx">>
      [] fmt = MIME_TYPE_WORD_PREFIX \o <<".", "spreadsheetml", ".", "sheet">>
             -> <<".xlsx">>
      [] fmt = MIME_TYPE_WORD_PREFIX \o <<".", "presentationml", ".", "presentation">>
             -> <<".pptx">>
      [] OTHER -> <<>>

\* C9 as stated: whenever export_file has issued an export request, the name
\* main saves under is the display name followed by the non-empty extension
\* of the requested office format.
C9_ExtensionMatchesFormat ==
    (request /= None /\ The(request).op = "export_media"
        /\ pc \in {"report", "save_file", "write", "done"}) =>
        /\ OfficeExtension(The(request).mimeType) /= <<>>
        /\ The(name) = The(meta).name \o OfficeExtension(The(request).mimeType)

\* C10 as stated: when the confirmation has been printed, save_file has
\* completed the write.
C10_ConfirmationAfterWrite ==
    InLog("print_downloaded") =>
        /\ InLog("write")
        /\ SavePath \in DOMAIN disk /\ disk[SavePath] = The(file_media)
====
